---- MODULE Spec2Model ----
(***************************************************************************)
(* FocusTasks (src/app.js): the closure-based task store created by        *)
(* createStore(storageKey), its localStorage slot, and the callers of its  *)
(* add / toggle / remove / list API.                                       *)
(*                                                                         *)
(* JavaScript values are modelled as tagged records.  A field that is      *)
(* missing (or undefined) in an object reads "absent"; the booleans of the *)
(* done field are the strings "true" and "false" so that a missing done    *)
(* can be told from a false one.  Objects have identity: every entry of    *)
(* the in-memory array carries ref, which is 0 for an object only the      *)
(* store can reach and 1 when the entry IS the record object the caller    *)
(* keeps a reference to.                                                   *)
(*                                                                         *)
(* On top of the store: the page (input field, error box, the two rendered *)
(* lists, the analytics line) with renderLists and delegatedHandler.       *)
(* A number in an id field is written "#7" (the number 7), which is not    *)
(* the string "7".  Texts that are read character by character (the input  *)
(* field, the argument of escapeHTML) are sequences of characters.         *)
(*                                                                         *)
(* Specifications: Spec (the store under any caller), AppSpec (the page    *)
(* driven through delegatedHandler), SummarySpec (summarize on its own),   *)
(* SlotSpec (the slot also written from outside) and PairSpec (the two     *)
(* definitions of createStore side by side).                               *)
(***************************************************************************)
EXTENDS Integers, Sequences, FiniteSets, TLC

\* ---------------------------------------------------------------- bounds
MaxLen == 2        \* add is not called on a collection of this length
MaxFailures == 1   \* how many localStorage.setItem calls in a row may throw
BigTotal == 400    \* the size of the large collections that are summarized

\* ---------------------------------------------------------- value domains
Ids == {"a", "b"}
Titles == {"t", "<b>"}
Keys == {"id", "title", "done"}

Null == [tag |-> "null", id |-> "absent", title |-> "absent", done |-> "absent"]

Obj(i, t, d) == [tag |-> "obj", id |-> i, title |-> t, done |-> d]

\* the record object the caller keeps, before any call: a well-formed task
HeldInit == Obj("a", "t", "false")

\* an object only the store can reach / the object the caller keeps
Private(v) == [ref |-> 0, val |-> v]

Kept(v) == [ref |-> 1, val |-> v]

Values(ts) == [i \in 1..Len(ts) |-> ts[i].val]

\* ------------------------------------------------ JSON.stringify / parse
\* The text of one array element: the literal null, or an object text
\* holding one "key":value pair per property that is defined.
StringifyItem(v) ==
  IF v.tag = "null"
    THEN [lit |-> "null", props |-> {}]
    ELSE [lit |-> "object",
          props |-> {<<k, v[k]>> : k \in {kk \in Keys : v[kk] # "absent"}}]

GetProp(props, k) ==
  IF \E p \in props : p[1] = k
    THEN (CHOOSE p \in props : p[1] = k)[2]
    ELSE "absent"

ParseItem(x) ==
  IF x.lit = "null"
    THEN Null
    ELSE [tag |-> "obj", id |-> GetProp(x.props, "id"),
          title |-> GetProp(x.props, "title"), done |-> GetProp(x.props, "done")]

\* JSON.stringify(tasks): the slot content written by persist
Stringify(ts) ==
  [kind |-> "array", items |-> [i \in 1..Len(ts) |-> StringifyItem(ts[i].val)]]

\* JSON.parse(raw): throws SyntaxError on text that is not JSON
JsonParse(s) ==
  [threw |-> s.kind \in {"unparseable", "empty"},
   isArray |-> s.kind = "array",
   items |-> [i \in 1..Len(s.items) |-> Private(ParseItem(s.items[i]))]]

\* deepClone(arr) = JSON.parse(JSON.stringify(arr)): fresh objects, and a
\* fresh array (live = FALSE: the result is not the store's own array)
deepClone(ts) == [items |-> Values(JsonParse(Stringify(ts)).items), live |-> FALSE]

\* ------------------------------------------------------------ slot values
Absent == [kind |-> "absent", items |-> <<>>]          \* getItem returns null
EmptyText == [kind |-> "empty", items |-> <<>>]        \* ""
Unparseable == [kind |-> "unparseable", items |-> <<>>] \* e.g. "{oops"
NonArray == [kind |-> "nonarray", items |-> <<>>]      \* e.g. "{}", "42"

ArrayText(vs) == [kind |-> "array", items |-> [i \in 1..Len(vs) |-> StringifyItem(vs[i])]]

InitialSlots ==
  {Absent, EmptyText, Unparseable, NonArray,
   ArrayText(<<>>),
   ArrayText(<<Null>>),
   ArrayText(<<Obj("a", "t", "absent")>>),
   ArrayText(<<Obj("a", "t", "false"), Obj("a", "t", "true")>>),
   ArrayText(<<Obj("a", "t", "false"), Obj("b", "t", "false"), Obj("a", "t", "true")>>)}

VARIABLES
  tasks,     \* createStore: let tasks  (sequence of [ref, val])
  slot,      \* localStorage[storageKey]
  held,      \* the record object the caller keeps a reference to
  ret,       \* the value the last call returned (NoValue when the last
             \* step was not a call that returned an array)
  outcome,   \* "ok" when the last call returned, "threw" when it threw
  last,      \* the last call: its name, its id argument, whether a record
             \* matched it (hit) and whether every match had a boolean done
  failures,  \* setItem calls that have thrown since the last one that did not
  supplied,  \* ids supplied to add since construction (while distinct)
  distinct,  \* construction gave [] and every add supplied a fresh id
  addsOnly,  \* since construction only add calls with well-formed records
             \* (and list calls) were made, and all returned
  input,     \* taskInput.value, a sequence of characters
  error,     \* errorBox is shown (hidden = false, with the message)
  view,      \* what the page shows: activeList, doneList, analyticsEl
  wired,     \* the script ran to its end: the listeners are attached
  event,     \* the last event delegatedHandler handled
  store2     \* a store made by the second createStore (lines 228-268),
             \* with a slot of its own: its tasks, slot, return value
             \* and outcome

page == <<input, error, view, wired, event>>

store == <<tasks, slot, held, ret, outcome, last, failures, supplied, distinct, addsOnly>>

vars == <<tasks, slot, held, ret, outcome, last, failures, supplied, distinct, addsOnly,
          input, error, view, wired, event, store2>>

\* no array was returned: a call that threw, a construction
NoValue == [items |-> <<>>, live |-> FALSE]

\* ---------------------------------------------------------------- hydrate
HydrateNoCatch(s) ==
  IF s.kind \in {"absent", "empty"}
    THEN [tasks |-> <<>>, outcome |-> "ok"]
    ELSE LET p == JsonParse(s) IN
         IF p.threw THEN [tasks |-> <<>>, outcome |-> "threw"]
         ELSE IF p.isArray THEN [tasks |-> p.items, outcome |-> "ok"]
         ELSE [tasks |-> <<>>, outcome |-> "ok"]

HydrateNoAssign(s) == [tasks |-> <<>>, outcome |-> "ok"]

\* createStore lines 15-26: raw = getItem(key); if (raw) try { parsed =
\* JSON.parse(raw); if (Array.isArray(parsed)) tasks = parsed } catch {..}
Hydrate(s) ==
  IF s.kind \in {"absent", "empty"}
    THEN [tasks |-> <<>>, outcome |-> "ok"]
    ELSE LET p == JsonParse(s) IN
         IF p.threw THEN [tasks |-> <<>>, outcome |-> "ok"]
         ELSE IF p.isArray THEN [tasks |-> p.items, outcome |-> "ok"]
         ELSE [tasks |-> <<>>, outcome |-> "ok"]

\* ---------------------------------------------------------------- persist
persistStale(next, writeOk) ==
  [tasks |-> next,
   slot |-> IF writeOk THEN Stringify(tasks) ELSE slot,
   ret |-> IF writeOk THEN deepClone(next) ELSE NoValue,
   outcome |-> IF writeOk THEN "ok" ELSE "threw"]

\* persist(next): tasks = next; setItem(key, stringify(tasks)); return
\* deepClone(tasks).  setItem may throw (quota): writeOk = FALSE; the
\* assignment to tasks has happened by then.
persist(next, writeOk) ==
  [tasks |-> next,
   slot |-> IF writeOk THEN Stringify(next) ELSE slot,
   ret |-> IF writeOk THEN deepClone(next) ELSE NoValue,
   outcome |-> IF writeOk THEN "ok" ELSE "threw"]

\* ------------------------------------------------- the three transforms
Not(d) == IF d = "true" THEN "false" ELSE "true"   \* !undefined = true

\* reading t.id or t.done of a null element throws TypeError
Throws(ts) == \E i \in 1..Len(ts) : ts[i].val.tag = "null"

Matches(ts, id) == {i \in 1..Len(ts) : ts[i].val.tag = "obj" /\ ts[i].val.id = id}

BoolDone(ts, id) == \A i \in Matches(ts, id) : ts[i].val.done \in {"true", "false"}

WellFormed(v) ==
  /\ v.tag = "obj"
  /\ v.id \in Ids
  /\ v.title \in Titles
  /\ v.done \in {"true", "false"}

Call(op, arg, hit, bool) == [op |-> op, arg |-> arg, hit |-> hit, bool |-> bool]

addNextTwice(ts, e) == ts \o <<e, e>>

\* [...tasks, item]: the item itself, not a copy
addNext(ts, e) == Append(ts, e)

toggleNextSet(ts, id) ==
  [i \in 1..Len(ts) |->
     IF ts[i].val.id = id
       THEN Private([ts[i].val EXCEPT !.done = "true"])
       ELSE ts[i]]

toggleNextAll(ts, id) ==
  [i \in 1..Len(ts) |-> Private([ts[i].val EXCEPT !.done = Not(ts[i].val.done)])]

toggleNextOthers(ts, id) ==
  [i \in 1..Len(ts) |->
     IF ts[i].val.id # id
       THEN Private([ts[i].val EXCEPT !.done = Not(ts[i].val.done)])
       ELSE ts[i]]

\* tasks.map(t => t.id === id ? Object.assign({}, t, {done: !t.done}) : t)
toggleNext(ts, id) ==
  [i \in 1..Len(ts) |->
     IF ts[i].val.id = id
       THEN Private([ts[i].val EXCEPT !.done = Not(ts[i].val.done)])
       ELSE ts[i]]

RECURSIVE Filter(_, _)
Filter(ts, id) ==
  IF ts = <<>> THEN <<>>
  ELSE IF Head(ts).val.id # id THEN <<Head(ts)>> \o Filter(Tail(ts), id)
  ELSE Filter(Tail(ts), id)

removeNextReversed(ts, id) ==
  [i \in 1..Len(Filter(ts, id)) |-> Filter(ts, id)[Len(Filter(ts, id)) + 1 - i]]

\* tasks.filter(t => t.id !== id)
removeNext(ts, id) == Filter(ts, id)


\* ------------------------------------------------------------- the page
\* the characters of the strings that occur as titles
Texts == {<<"t">>, <<"<", "b", ">">>, <<"&", "\"", "'">>}

RECURSIVE Join(_)
Join(cs) == IF cs = <<>> THEN "" ELSE Head(cs) \o Join(Tail(cs))

Chars(str) == CHOOSE cs \in Texts : Join(cs) = str

RECURSIVE ReplaceAll(_, _, _)
ReplaceAll(cs, c, by) ==
  IF cs = <<>> THEN <<>>
  ELSE (IF Head(cs) = c THEN by ELSE <<Head(cs)>>) \o ReplaceAll(Tail(cs), c, by)

escapeHTMLNoLt(cs) ==
  ReplaceAll(ReplaceAll(ReplaceAll(ReplaceAll(cs,
    "&", <<"&", "a", "m", "p", ";">>),
    ">", <<"&", "g", "t", ";">>),
    "\"", <<"&", "q", "u", "o", "t", ";">>),
    "'", <<"&", "#", "3", "9", ";">>)

\* escapeHTML(str): five replace passes, & first
escapeHTML(cs) ==
  ReplaceAll(ReplaceAll(ReplaceAll(ReplaceAll(ReplaceAll(cs,
    "&", <<"&", "a", "m", "p", ";">>),
    "<", <<"&", "l", "t", ";">>),
    ">", <<"&", "g", "t", ";">>),
    "\"", <<"&", "q", "u", "o", "t", ";">>),
    "'", <<"&", "#", "3", "9", ";">>)

\* String(v) of an id, as setAttribute('data-id', task.id) stores it
ToAttr(id) ==
  IF id = "#7" THEN "7" ELSE IF id = "absent" THEN "undefined" ELSE id

Truthy(d) == d = "true"

\* makeListItem(task): the li element, with its data-id attribute, its
\* done class and the markup of its title span
makeListItem(task) ==
  [dataId |-> ToAttr(task.id),
   done |-> Truthy(task.done),
   html |-> escapeHTML(Chars(task.title))]

\* ------------------------------------------- IEEE double arithmetic
\* Math.round((done / tasks.length) * 1000) is computed in binary64: the
\* quotient is rounded to 53 significant bits (ties to even), so is the
\* product by 1000, and Math.round rounds the result half up.  Numbers are
\* sequences of bits, most significant first, with F fractional bits.
Mantissa == 53

RECURSIVE Normalize(_, _, _)
Normalize(r, n, e) == IF r >= n THEN [r |-> r, e |-> e] ELSE Normalize(2 * r, n, e + 1)

\* the first k bits of r / n, for r < 2 * n
RECURSIVE Bits(_, _, _)
Bits(r, n, k) ==
  IF k = 0 THEN <<>>
  ELSE IF r >= n THEN <<1>> \o Bits(2 * (r - n), n, k - 1)
  ELSE <<0>> \o Bits(2 * r, n, k - 1)

\* what is left of r / n after its first k bits
RECURSIVE Rem(_, _, _)
Rem(r, n, k) ==
  IF k = 0 THEN r
  ELSE IF r >= n THEN Rem(2 * (r - n), n, k - 1)
  ELSE Rem(2 * r, n, k - 1)

RECURSIVE Inc(_)
Inc(bits) ==
  IF bits = <<>> THEN <<1>>
  ELSE IF bits[Len(bits)] = 0 THEN [bits EXCEPT ![Len(bits)] = 1]
  ELSE Inc(SubSeq(bits, 1, Len(bits) - 1)) \o <<0>>

\* round to nearest, ties to even
RoundToMantissa(bits, sticky, F) ==
  IF Len(bits) <= Mantissa THEN [bits |-> bits, F |-> F]
  ELSE LET keep == SubSeq(bits, 1, Mantissa)
           guard == bits[Mantissa + 1]
           st == sticky \/ \E i \in (Mantissa + 2)..Len(bits) : bits[i] = 1
           F2 == F - (Len(bits) - Mantissa)
           up == guard = 1 /\ (st \/ keep[Mantissa] = 1)
           k2 == IF up THEN Inc(keep) ELSE keep
       IN IF Len(k2) > Mantissa
            THEN [bits |-> SubSeq(k2, 1, Mantissa), F |-> F2 - 1]
            ELSE [bits |-> k2, F |-> F2]

RECURSIVE CarryBits(_)
CarryBits(c) == IF c = 0 THEN <<>> ELSE CarryBits(c \div 2) \o <<c % 2>>

RECURSIVE ToInt(_)
ToInt(bits) ==
  IF bits = <<>> THEN 0 ELSE 2 * ToInt(SubSeq(bits, 1, Len(bits) - 1)) + bits[Len(bits)]

\* the m low bits of c, most significant first
LowBits(c, m) == [i \in 1..m |-> (c \div 2^(m - i)) % 2]

\* bits * k + c, eight bits at a time from the least significant end
RECURSIVE MulCarry(_, _, _)
MulCarry(bits, k, c) ==
  IF bits = <<>> THEN CarryBits(c)
  ELSE LET m == IF Len(bits) < 8 THEN Len(bits) ELSE 8
           t == ToInt(SubSeq(bits, Len(bits) - m + 1, Len(bits))) * k + c
       IN MulCarry(SubSeq(bits, 1, Len(bits) - m), k, t \div 2^m) \o LowBits(t, m)

\* Math.round((d / n) * 1000) for 0 <= d <= n, 1 <= n
RoundPctDouble(d, n) ==
  IF d = 0 THEN 0
  ELSE LET nm == Normalize(d, n, 0)
           q == RoundToMantissa(Bits(nm.r, n, Mantissa + 1),
                                Rem(nm.r, n, Mantissa + 1) # 0, nm.e + Mantissa)
           p == RoundToMantissa(MulCarry(q.bits, 1000, 0), FALSE, q.F)
           ip == Len(p.bits) - p.F
       IN IF ip < 0 THEN 0
          ELSE ToInt(SubSeq(p.bits, 1, ip))
               + (IF ip + 1 <= Len(p.bits) THEN p.bits[ip + 1] ELSE 0)

\* the collection sizes the model renders, computed once
Totals == (1..(MaxLen + 1)) \cup {BigTotal}

PctTable == [n \in Totals |-> [d \in 0..n |-> RoundPctDouble(d, n)]]

RoundPct(d, n) == IF n \in Totals THEN PctTable[n][d] ELSE RoundPctDouble(d, n)

\* summarize(tasks); pct is kept in tenths of a percent
summarize(l) ==
  LET done == Len(SelectSeq(l, LAMBDA t : Truthy(t.done)))
      active == Len(l) - done
  IN [active |-> active, done |-> done,
      pct |-> IF Len(l) = 0 THEN 0 ELSE RoundPct(done, Len(l))]

\* the page as the HTML file delivers it, before any render
Blank == [active |-> <<>>, done |-> <<>>, analytics |-> [active |-> 0, done |-> 0, pct |-> 0], drawn |-> FALSE]

\* renderLists(): list(), clear both lists, partition with filter (which
\* throws on a null element), append one li per task, renderAnalytics()
renderLists(ts) ==
  LET l == deepClone(ts).items IN
  IF Throws(ts)
    THEN [threw |-> TRUE, view |-> Blank]
    ELSE [threw |-> FALSE,
          view |-> [active |-> LET a == SelectSeq(l, LAMBDA t : ~Truthy(t.done))
                               IN [i \in 1..Len(a) |-> makeListItem(a[i])],
                    done |-> LET d == SelectSeq(l, LAMBDA t : Truthy(t.done))
                             IN [i \in 1..Len(d) |-> makeListItem(d[i])],
                    analytics |-> summarize(l),
                    drawn |-> TRUE]]

\* taskInput.value as the user may leave it
Inputs == {<<>>, <<" ">>, <<" ", "<", "b", ">", " ">>}

RECURSIVE TrimLeft(_)
TrimLeft(cs) == IF cs # <<>> /\ Head(cs) = " " THEN TrimLeft(Tail(cs)) ELSE cs

RECURSIVE TrimRight(_)
TrimRight(cs) ==
  IF cs # <<>> /\ cs[Len(cs)] = " " THEN TrimRight(SubSeq(cs, 1, Len(cs) - 1)) ELSE cs

trim(cs) == TrimRight(TrimLeft(cs))

validateTitleNoTrim(raw) == raw # <<>>

\* validateTitle(raw): false for "" and for text that trims to ""
validateTitle(raw) ==
  IF raw = <<>> THEN FALSE
  ELSE IF Len(trim(raw)) = 0 THEN FALSE
  ELSE TRUE

\* ------------------------------------------------------------------ Init
\* no second store has been made
Unused == [tasks |-> <<>>, slot |-> Absent, ret |-> NoValue, outcome |-> "ok"]

\* createStore(key) has run (line 61) while the slot held s
Created(s) ==
  /\ slot = s
  /\ tasks = Hydrate(slot).tasks
  /\ outcome = Hydrate(slot).outcome
  /\ held = HeldInit
  /\ ret = NoValue
  /\ last = Call("construct", "-", FALSE, FALSE)
  /\ failures = 0
  /\ supplied = {}
  /\ distinct = (Hydrate(slot).tasks = <<>>)
  /\ addsOnly = TRUE

\* the page as delivered: nothing rendered, no listener attached
Unrendered ==
  /\ input = <<>>
  /\ error = FALSE
  /\ view = Blank
  /\ wired = FALSE
  /\ event = "init"

\* the store in the hands of any caller
Init == (\E s \in InitialSlots : Created(s)) /\ Unrendered /\ store2 = Unused

\* --------------------------------------------------------------- actions
\* what the caller may pass to add: a record literal as the router builds
\* it, a literal without done, or the object it keeps
Literals == {Obj(i, "t", "false") : i \in Ids} \cup {Obj("a", "t", "absent")}

AddArgs == {Private(v) : v \in Literals} \cup {Kept(held)}

Commit(p) ==
  /\ tasks' = p.tasks
  /\ slot' = p.slot
  /\ ret' = p.ret
  /\ outcome' = p.outcome
  /\ failures' = IF p.outcome = "threw" THEN failures + 1 ELSE 0

\* new createStore(storageKey) on the same key
Construct ==
  /\ tasks' = Hydrate(slot).tasks
  /\ outcome' = Hydrate(slot).outcome
  /\ last' = Call("construct", "-", FALSE, FALSE)
  /\ supplied' = {}
  /\ distinct' = (Hydrate(slot).tasks = <<>>)
  /\ addsOnly' = TRUE
  /\ ret' = NoValue
  /\ UNCHANGED <<slot, held, failures>>

add(e, writeOk) ==
  /\ Len(tasks) < MaxLen
  /\ writeOk \/ failures < MaxFailures
  /\ Commit(persist(addNext(tasks, e), writeOk))
  /\ last' = Call("add", e.val.id, FALSE, FALSE)
  /\ addsOnly' = (addsOnly /\ writeOk /\ WellFormed(e.val))
  /\ distinct' = (distinct /\ e.val.tag = "obj" /\ e.val.id \notin supplied)
  /\ supplied' = IF distinct' THEN supplied \cup {e.val.id} ELSE {}
  /\ UNCHANGED held

toggle(id, writeOk) ==
  /\ writeOk \/ failures < MaxFailures
  /\ last' = Call("toggle", id, Matches(tasks, id) # {}, BoolDone(tasks, id))
  /\ addsOnly' = FALSE
  /\ IF Throws(tasks)
       THEN /\ writeOk
            /\ outcome' = "threw"
            /\ ret' = NoValue
            /\ UNCHANGED <<tasks, slot, failures>>
       ELSE Commit(persist(toggleNext(tasks, id), writeOk))
  /\ UNCHANGED <<held, supplied, distinct>>

remove(id, writeOk) ==
  /\ writeOk \/ failures < MaxFailures
  /\ last' = Call("remove", id, Matches(tasks, id) # {}, BoolDone(tasks, id))
  /\ addsOnly' = FALSE
  /\ IF Throws(tasks)
       THEN /\ writeOk
            /\ outcome' = "threw"
            /\ ret' = NoValue
            /\ UNCHANGED <<tasks, slot, failures>>
       ELSE Commit(persist(removeNext(tasks, id), writeOk))
  /\ UNCHANGED <<held, supplied, distinct>>

list ==
  /\ ret' = deepClone(tasks)
  /\ outcome' = "ok"
  /\ last' = Call("list", "-", FALSE, FALSE)
  /\ UNCHANGED <<tasks, slot, held, failures, supplied, distinct, addsOnly>>

\* the caller writes the title of the record object it keeps; every array
\* entry that is this object shows the new title
MutateItem(t) ==
  /\ held.title # t
  /\ held' = [held EXCEPT !.title = t]
  /\ tasks' = [i \in 1..Len(tasks) |->
                 IF tasks[i].ref = 1 THEN Kept(held') ELSE tasks[i]]
  /\ last' = Call("mutateItem", "-", FALSE, FALSE)
  /\ addsOnly' = FALSE
  /\ ret' = NoValue
  /\ UNCHANGED <<slot, outcome, failures, supplied, distinct>>

\* the caller empties the array it was returned (ret.length = 0); the
\* store's array is touched only if the returned array is the live one
MutateReturned ==
  /\ ret.items # <<>>
  /\ ret' = [ret EXCEPT !.items = <<>>]
  /\ tasks' = IF ret.live THEN <<>> ELSE tasks
  /\ last' = Call("mutateReturned", "-", FALSE, FALSE)
  /\ addsOnly' = FALSE
  /\ UNCHANGED <<slot, held, outcome, failures, supplied, distinct>>

\* the store API under any caller; the page is not involved
Next ==
  \/ Construct /\ UNCHANGED <<page, store2>>
  \/ \E e \in AddArgs, w \in BOOLEAN : add(e, w) /\ UNCHANGED <<page, store2>>
  \/ \E id \in Ids, w \in BOOLEAN : toggle(id, w) /\ UNCHANGED <<page, store2>>
  \/ \E id \in Ids, w \in BOOLEAN : remove(id, w) /\ UNCHANGED <<page, store2>>
  \/ list /\ UNCHANGED <<page, store2>>
  \/ \E t \in Titles : MutateItem(t) /\ UNCHANGED <<page, store2>>
  \/ MutateReturned /\ UNCHANGED <<page, store2>>

Spec == Init /\ [][Next]_vars

\* ------------------------------------------------------- the event router
\* slots the page may find: also records another program wrote, with a
\* number as id
AppSlots == InitialSlots \cup {ArrayText(<<Obj("#7", "&\"'", "true")>>)}

\* the rest of the script has run: the initial renderLists() (line 158),
\* then, unless that threw, the two addEventListener calls (lines 205-206)
Rendered ==
  /\ input = <<>>
  /\ error = FALSE
  /\ view = renderLists(tasks).view
  /\ wired = ~renderLists(tasks).threw
  /\ event = "init"

AppInit == (\E s \in AppSlots : Created(s)) /\ Rendered /\ store2 = Unused

\* the user edits the input field
Type(txt) ==
  /\ wired
  /\ input # txt
  /\ input' = txt
  /\ event' = "input"
  /\ UNCHANGED <<store, error, view, wired, store2>>

\* delegatedHandler, e.type === 'submit'; id is what makeId() returns.
\* A throw in store.add ends the handler there.
Submit(id, writeOk) ==
  /\ wired
  /\ event' = "submit"
  /\ IF ~validateTitle(input)
       THEN /\ error' = TRUE
            /\ UNCHANGED <<store, input, view>>
       ELSE /\ error' = FALSE
            /\ add(Private(Obj(id, Join(trim(input)), "false")), writeOk)
            /\ input' = IF writeOk THEN <<>> ELSE input
            /\ view' = IF writeOk THEN renderLists(tasks').view ELSE view
  /\ UNCHANGED <<wired, store2>>

\* delegatedHandler, click on the toggle button of row idx of a list
ClickToggle(sec, idx, writeOk) ==
  /\ wired
  /\ idx \in 1..Len(view[sec])
  /\ event' = "toggle"
  /\ toggle(view[sec][idx].dataId, writeOk)
  /\ view' = IF outcome' = "ok" THEN renderLists(tasks').view ELSE view
  /\ UNCHANGED <<input, error, wired, store2>>

\* delegatedHandler, click on the delete button of row idx of a list
ClickDelete(sec, idx, writeOk) ==
  /\ wired
  /\ idx \in 1..Len(view[sec])
  /\ event' = "delete"
  /\ remove(view[sec][idx].dataId, writeOk)
  /\ view' = IF outcome' = "ok" THEN renderLists(tasks').view ELSE view
  /\ UNCHANGED <<input, error, wired, store2>>

Sections == {"active", "done"}

Rows == 1..(MaxLen + 1)

AppNext ==
  \/ \E txt \in Inputs : Type(txt)
  \/ \E id \in Ids, w \in BOOLEAN : Submit(id, w)
  \/ \E sec \in Sections, idx \in Rows, w \in BOOLEAN : ClickToggle(sec, idx, w)
  \/ \E sec \in Sections, idx \in Rows, w \in BOOLEAN : ClickDelete(sec, idx, w)

AppSpec == AppInit /\ [][AppNext]_vars

\* ----------------------------------------------------- summarize alone
DoneValues == {"true", "false", "absent"}

\* short collections with every mix of done values
SmallCollections ==
  UNION {{[i \in 1..n |-> Private(Obj("a", "t", f[i]))] : f \in [1..n -> DoneValues]}
           : n \in 0..(MaxLen + 1)}

\* large collections, the first d records done
BigCollections ==
  {[i \in 1..BigTotal |-> Private(Obj("a", "t", IF i <= d THEN "true" ELSE "false"))]
     : d \in 0..BigTotal}

SummaryInit ==
  /\ tasks \in SmallCollections \cup BigCollections
  /\ slot = Stringify(tasks)
  /\ outcome = "ok"
  /\ held = HeldInit
  /\ ret = NoValue
  /\ last = Call("construct", "-", FALSE, FALSE)
  /\ failures = 0
  /\ supplied = {}
  /\ distinct = (tasks = <<>>)
  /\ addsOnly = TRUE
  /\ Unrendered
  /\ store2 = Unused

\* renderAnalytics(): analyticsEl shows summarize(store.list())
renderAnalytics ==
  /\ ~view.drawn
  /\ view' = [view EXCEPT !.analytics = summarize(deepClone(tasks).items),
                          !.drawn = TRUE]
  /\ UNCHANGED <<store, input, error, wired, event, store2>>

SummaryNext == renderAnalytics

SummarySpec == SummaryInit /\ [][SummaryNext]_vars

\* ------------------------------------- the slot written from outside
\* what another page or program may leave in the slot
ExternalSlots ==
  {Unparseable, ArrayText(<<>>), ArrayText(<<Obj("b", "<b>", "true")>>)}

\* localStorage.setItem(key, ...) done outside this store
ExternalWrite(s) ==
  /\ slot # s
  /\ slot' = s
  /\ last' = Call("external", "-", FALSE, FALSE)
  /\ ret' = NoValue
  /\ addsOnly' = FALSE
  /\ UNCHANGED <<tasks, held, outcome, failures, supplied, distinct, page, store2>>

SlotNext ==
  \/ Construct /\ UNCHANGED <<page, store2>>
  \/ \E e \in AddArgs, w \in BOOLEAN : add(e, w) /\ UNCHANGED <<page, store2>>
  \/ \E id \in Ids, w \in BOOLEAN : toggle(id, w) /\ UNCHANGED <<page, store2>>
  \/ \E id \in Ids, w \in BOOLEAN : remove(id, w) /\ UNCHANGED <<page, store2>>
  \/ list /\ UNCHANGED <<page, store2>>
  \/ \E s \in ExternalSlots : ExternalWrite(s)

SlotSpec == Init /\ [][SlotNext]_vars

\* --------------------------------------- the second createStore (228-268)
\* lines 229-239: let tasks = []; raw = getItem(key); if (raw) try {...}
Hydrate2(s) ==
  IF s.kind = "absent" \/ s.kind = "empty" THEN <<>>
  ELSE IF JsonParse(s).threw THEN <<>>
  ELSE IF JsonParse(s).isArray THEN JsonParse(s).items
  ELSE <<>>

\* line 241
deepClone2(arr) == [items |-> Values(JsonParse(Stringify(arr)).items), live |-> FALSE]

persist2NoWrite(st, next, writeOk) ==
  IF writeOk
    THEN [tasks |-> next, slot |-> st.slot, ret |-> deepClone2(next), outcome |-> "ok"]
    ELSE [tasks |-> next, slot |-> st.slot, ret |-> NoValue, outcome |-> "threw"]

\* lines 243-247: tasks = next; setItem, which may throw; return the clone
persist2(st, next, writeOk) ==
  IF writeOk
    THEN [tasks |-> next, slot |-> Stringify(next), ret |-> deepClone2(next), outcome |-> "ok"]
    ELSE [tasks |-> next, slot |-> st.slot, ret |-> NoValue, outcome |-> "threw"]

\* the callback of map or filter reads t.id of a null element: TypeError
Aborted2(st) == [st EXCEPT !.ret = NoValue, !.outcome = "threw"]

\* lines 250-253
add2(st, item, writeOk) == persist2(st, st.tasks \o <<item>>, writeOk)

\* lines 254-259
toggle2(st, id, writeOk) ==
  IF \E i \in 1..Len(st.tasks) : st.tasks[i].val = Null
    THEN Aborted2(st)
    ELSE persist2(st,
           [i \in 1..Len(st.tasks) |->
              LET t == st.tasks[i].val
              IN IF t.id = id
                   THEN Private([t EXCEPT !.done = IF t.done = "true" THEN "false" ELSE "true"])
                   ELSE st.tasks[i]],
           writeOk)

\* lines 260-263
remove2(st, id, writeOk) ==
  IF \E i \in 1..Len(st.tasks) : st.tasks[i].val = Null
    THEN Aborted2(st)
    ELSE persist2(st, SelectSeq(st.tasks, LAMBDA t : t.val.id # id), writeOk)

\* lines 264-266
list2(st) == [st EXCEPT !.ret = deepClone2(st.tasks), !.outcome = "ok"]

\* createStore(key) of the second definition on the slot st holds
Construct2(st) ==
  [tasks |-> Hydrate2(st.slot), slot |-> st.slot, ret |-> NoValue, outcome |-> "ok"]

\* both definitions have made a store, each on a slot holding s
PairInit ==
  /\ \E s \in InitialSlots :
       /\ Created(s)
       /\ store2 = Construct2([Unused EXCEPT !.slot = s])
  /\ Unrendered

\* the same call, in the same environment, on both stores
PairConstruct == Construct /\ store2' = Construct2(store2) /\ UNCHANGED page

PairAdd(e, writeOk) ==
  add(e, writeOk) /\ store2' = add2(store2, e, writeOk) /\ UNCHANGED page

PairToggle(id, writeOk) ==
  toggle(id, writeOk) /\ store2' = toggle2(store2, id, writeOk) /\ UNCHANGED page

PairRemove(id, writeOk) ==
  remove(id, writeOk) /\ store2' = remove2(store2, id, writeOk) /\ UNCHANGED page

PairList == list /\ store2' = list2(store2) /\ UNCHANGED page

PairNext ==
  \/ PairConstruct
  \/ \E e \in AddArgs, w \in BOOLEAN : PairAdd(e, w)
  \/ \E id \in Ids, w \in BOOLEAN : PairToggle(id, w)
  \/ \E id \in Ids, w \in BOOLEAN : PairRemove(id, w)
  \/ PairList

PairSpec == PairInit /\ [][PairNext]_vars

\* ================================================================ claims
\* what list() returns for an in-memory array
listOf(ts) == deepClone(ts).items

StoreOps == {"add", "toggle", "remove"}

\* C1 (write-through): in every state reached right after an add, toggle or
\* remove call has returned, the slot holds an array text and decoding it
\* yields exactly list().
C1_WriteThrough ==
  (last.op \in StoreOps /\ outcome = "ok")
    => /\ slot.kind = "array"
       /\ ~JsonParse(slot).threw
       /\ Values(JsonParse(slot).items) = listOf(tasks)

\* a toggle that matched a record has returned on a collection of two
C1_Witness ==
  /\ last.op = "toggle" /\ outcome = "ok" /\ last.hit
  /\ Len(tasks) = 2

DoneChanged == {i \in 1..Len(tasks) : i <= Len(tasks') /\ tasks'[i].val.done # tasks[i].val.done}

\* C3: a toggle(id) call inverts the done field of at most one record, also
\* when several records of the collection have that id.
C3_ToggleAtMostOne ==
  [][(last'.op = "toggle" /\ outcome' = "ok") => Cardinality(DoneChanged) <= 1]_vars

\* C4: an add, toggle or remove call that fails (it throws, as when the
\* storage write fails) leaves the in-memory collection as it was before
\* the call, so that list() and the slot do not diverge.
C4_FailsWholly ==
  [][(last'.op \in StoreOps /\ outcome' = "threw") => listOf(tasks') = listOf(tasks)]_vars

\* C5: while no call has just thrown, nothing the caller does outside add,
\* toggle and remove (writing to a record object it passed to add, writing
\* to a returned value, calling list) changes what list() returns or what
\* the slot holds.
C5_NoLiveReference ==
  [][(failures' = 0 /\ outcome = "ok" /\ last'.op \in {"mutateItem", "mutateReturned", "list"})
       => /\ listOf(tasks') = listOf(tasks)
          /\ slot' = slot]_vars

\* C6 (uniqueness): starting from an empty collection, while every add
\* supplied an id that no earlier add supplied, list() holds no two records
\* with the same id, whatever toggle and remove calls are interleaved.
C6_Uniqueness ==
  distinct =>
    \A i, j \in 1..Len(tasks) : i # j => listOf(tasks)[i].id # listOf(tasks)[j].id

\* two records with distinct supplied ids are in the collection
C6_Witness == distinct /\ Len(tasks) = 2

\* C7 as stated (involution for any collection): after toggle(id) has
\* returned, a second toggle(id) yields the list() of before the first.
C7_ToggleInvolutionAny ==
  [][(last'.op = "toggle" /\ outcome' = "ok")
       => listOf(toggleNext(tasks', last'.arg)) = listOf(tasks)]_vars

\* C7 as amended: the same, when every record with that id had a boolean
\* done value before the first call.
C7_ToggleInvolution ==
  [][(last'.op = "toggle" /\ outcome' = "ok" /\ last'.bool)
       => listOf(toggleNext(tasks', last'.arg)) = listOf(tasks)]_vars

\* a toggle matched a record with a boolean done, next to a record with
\* another id
C7_Witness ==
  /\ last.op = "toggle" /\ outcome = "ok" /\ last.hit /\ last.bool
  /\ \E i \in 1..Len(tasks) : tasks[i].val.id # last.arg

C9_CorruptedSlotGivesEmpty ==
  (last.op = "construct" /\ slot.kind # "array")
    => /\ outcome = "ok"
       /\ tasks = <<>>

\* a store was constructed on a slot whose text does not parse
C9_Witness == last.op = "construct" /\ slot.kind = "unparseable"

\* C10: whatever the slot held at construction, no operation aborts with
\* an error (here: even while localStorage accepts every write).
C10_NoOperationAborts == (failures = 0) => (outcome = "ok")

\* ------------------------------------------------------------------ C11
AllSpaces(cs) == \A i \in 1..Len(cs) : cs[i] = " "

\* C11: a submit event whose input text is empty or all whitespace sets the
\* validation error, leaves the collection and the slot unchanged (no store
\* call is made), does not clear the input field and renders nothing
C11_BlankSubmit ==
  [][(event' = "submit" /\ AllSpaces(input))
       => /\ error'
          /\ tasks' = tasks
          /\ slot' = slot
          /\ last' = last
          /\ input' = input
          /\ view' = view]_vars

C11_Witness == event = "submit" /\ error /\ input = <<" ">> /\ tasks # <<>>

\* ------------------------------------------------------------------ C12
CountDone(l) == Cardinality({i \in 1..Len(l) : l[i].done = "true"})

\* pct (in tenths of a percent) is done / total * 100 rounded half up at
\* the tenths digit
HalfUp(pct, done, total) ==
  /\ 2 * total * pct - total <= 2000 * done
  /\ 2000 * done < 2 * total * pct + total

\* C12: for every collection the displayed summary has active = the number
\* of records not done, done = the number of records done, and percentDone
\* = 0 for the empty collection, otherwise done / total as a percentage
\* with one decimal rounded half up, always between 0 and 100
C12_SummaryCorrect ==
  view.drawn =>
    LET l == listOf(tasks)
        s == view.analytics
    IN /\ s.done = CountDone(l)
       /\ s.active = Len(l) - CountDone(l)
       /\ s.pct \in 0..1000
       /\ (Len(l) = 0 => s.pct = 0)
       /\ (Len(l) > 0 => HalfUp(s.pct, CountDone(l), Len(l)))

\* ------------------------------------------------------------------ C13
\* the character references escapeHTML writes, with what a markup parser
\* reads them as
Entities ==
  {[text |-> <<"&", "a", "m", "p", ";">>, char |-> "&"],
   [text |-> <<"&", "l", "t", ";">>, char |-> "<"],
   [text |-> <<"&", "g", "t", ";">>, char |-> ">"],
   [text |-> <<"&", "q", "u", "o", "t", ";">>, char |-> "\""],
   [text |-> <<"&", "#", "3", "9", ";">>, char |-> "'"]}

StartsAt(cs, i, txt) ==
  /\ i + Len(txt) - 1 <= Len(cs)
  /\ SubSeq(cs, i, i + Len(txt) - 1) = txt

\* text that a markup parser reads as character data only
Safe(cs) ==
  \A i \in 1..Len(cs) :
    /\ cs[i] \notin {"<", ">", "\"", "'"}
    /\ cs[i] = "&" => \E e \in Entities : StartsAt(cs, i, e.text)

\* the characters a markup parser shows for cs
RECURSIVE Shown(_)
Shown(cs) ==
  IF cs = <<>> THEN <<>>
  ELSE IF \E e \in Entities : StartsAt(cs, 1, e.text)
    THEN LET e == CHOOSE x \in Entities : StartsAt(cs, 1, x.text)
         IN <<e.char>> \o Shown(SubSeq(cs, Len(e.text) + 1, Len(cs)))
  ELSE <<Head(cs)>> \o Shown(Tail(cs))

AllRows(v) ==
  {v.active[i] : i \in 1..Len(v.active)} \cup {v.done[i] : i \in 1..Len(v.done)}

\* C13: every title the page has put into innerHTML, user-supplied or
\* slot-supplied, is there in sanitized form: the markup of every row is
\* character data only, and a render pass of the collection gives each
\* record a row that shows exactly the record's title
C13_Sanitized ==
  /\ \A row \in AllRows(view) : Safe(row.html)
  /\ ~Throws(tasks) =>
       LET l == listOf(tasks)
           shown == {Join(Shown(row.html)) : row \in AllRows(renderLists(tasks).view)}
       IN shown = {l[i].title : i \in 1..Len(l)}

C13_Witness ==
  /\ event = "submit"
  /\ \E row \in AllRows(view) :
       row.html = <<"&", "l", "t", ";", "b", "&", "g", "t", ";">>
  /\ \E row \in AllRows(view) :
       row.html = <<"&", "a", "m", "p", ";", "&", "q", "u", "o", "t", ";", "&", "#", "3", "9", ";">>

\* ------------------------------------------------------------------ C14
\* rows shows, in order, exactly the records of l whose done value is done
SectionShows(rows, l, done) ==
  LET part == SelectSeq(l, LAMBDA t : (t.done = "true") = done)
  IN /\ Len(rows) = Len(part)
     /\ \A i \in 1..Len(rows) :
          /\ rows[i].dataId = ToAttr(part[i].id)
          /\ rows[i].done = done
          /\ Join(Shown(rows[i].html)) = part[i].title

\* C14: once the initial render has run, and after every router event, the
\* active section shows exactly the not-done records of list() and the done
\* section exactly the done records, each in collection order, together
\* covering the collection; the displayed summary is the summary of list();
\* and a further render pass would give the same output
C14_ViewConsistent ==
  wired =>
    /\ SectionShows(view.active, listOf(tasks), FALSE)
    /\ SectionShows(view.done, listOf(tasks), TRUE)
    /\ Len(view.active) + Len(view.done) = Len(tasks)
    /\ view.analytics.active = Len(view.active)
    /\ view.analytics.done = Len(view.done)
    /\ view.analytics = summarize(listOf(tasks))
    /\ renderLists(tasks).view = view

\* ------------------------------------------------------------------ C15
\* l2 is l1 with some records taken out, the others in the same order
SubsequenceOf(l2, l1) ==
  \E f \in [1..Len(l2) -> 1..Len(l1)] :
    /\ \A i, j \in 1..Len(l2) : i < j => f[i] < f[j]
    /\ \A i \in 1..Len(l2) : l2[i] = l1[f[i]]

SameIdentity(r2, r1) ==
  /\ r2.tag = r1.tag
  /\ r1.tag = "obj" => (r2.id = r1.id /\ r2.title = r1.title)

\* C15: add(item) places item as the last record and leaves all earlier
\* records in their positions; toggle keeps every record at its position;
\* remove keeps the relative order of the records that remain
C15_OrderPreserved ==
  [][LET l1 == listOf(tasks)
         l2 == listOf(tasks')
     IN /\ last'.op = "add" =>
             /\ Len(l2) = Len(l1) + 1
             /\ SubSeq(l2, 1, Len(l1)) = l1
             /\ l2[Len(l2)].id = last'.arg
        /\ last'.op = "toggle" =>
             /\ Len(l2) = Len(l1)
             /\ \A i \in 1..Len(l1) : SameIdentity(l2[i], l1[i])
        /\ last'.op = "remove" => SubsequenceOf(l2, l1)]_vars

C15_Witness ==
  /\ last.op = "remove"
  /\ outcome = "ok"
  /\ Len(tasks) = 2
  /\ tasks[1].val.done = "false"
  /\ tasks[2].val.done = "true"

\* ------------------------------------------------------------------ C16
\* C16: whatever the router does (each handler calls add, toggle or remove
\* and then list), a record that stays in the collection keeps its id and
\* its title; a record the router adds has done = false; and the done value
\* of a record changes only in a toggle call whose id matches the record
C16_FieldStability ==
  [][LET l1 == listOf(tasks)
         l2 == listOf(tasks')
     IN /\ event' = "input" => l2 = l1
        /\ event' = "submit" =>
             /\ Len(l2) >= Len(l1)
             /\ SubSeq(l2, 1, Len(l1)) = l1
             /\ \A i \in (Len(l1) + 1)..Len(l2) : l2[i].done = "false"
        /\ event' = "toggle" =>
             /\ Len(l2) = Len(l1)
             /\ \A i \in 1..Len(l1) :
                  /\ l2[i].id = l1[i].id
                  /\ l2[i].title = l1[i].title
                  /\ l2[i].done # l1[i].done => l1[i].id = last'.arg
        /\ event' = "delete" => SubsequenceOf(l2, l1)]_vars

C16_Witness ==
  /\ event = "toggle"
  /\ outcome = "ok"
  /\ \E i, j \in 1..Len(tasks) :
       /\ tasks[i].val.id = last.arg
       /\ tasks[j].val.id # last.arg
       /\ tasks[j].val.title = "<b>"

\* ------------------------------------------------------------------ C17
\* cs is raw without its leading and trailing whitespace
TrimOf(cs, raw) ==
  /\ cs # <<>>
  /\ Head(cs) # " "
  /\ cs[Len(cs)] # " "
  /\ \E a, b \in 0..Len(raw) :
       /\ a + Len(cs) + b = Len(raw)
       /\ SubSeq(raw, a + 1, a + Len(cs)) = cs
       /\ AllSpaces(SubSeq(raw, 1, a))
       /\ AllSpaces(SubSeq(raw, a + Len(cs) + 1, Len(raw)))

\* C17: a submit event with a non-blank title clears the validation error,
\* appends exactly one record (title = the input text without leading and
\* trailing whitespace, done = false, id = the generated id), clears the
\* input field and runs a render pass
C17_SubmitAppends ==
  [][(event' = "submit" /\ ~AllSpaces(input))
       => LET l1 == listOf(tasks)
              l2 == listOf(tasks')
          IN /\ ~error'
             /\ Len(l2) = Len(l1) + 1
             /\ SubSeq(l2, 1, Len(l1)) = l1
             /\ l2[Len(l2)].id = last'.arg
             /\ l2[Len(l2)].done = "false"
             /\ TrimOf(Chars(l2[Len(l2)].title), input)
             /\ input' = <<>>
             /\ view' = renderLists(tasks').view]_vars

\* ------------------------------------------------------------------ C18
\* C18: the slot is read only at construction.  A modification of the slot
\* from outside changes nothing list() returns; the operations after it
\* work on the in-memory collection alone; a store constructed afterwards
\* holds what the slot then decodes to; and the next add, toggle or remove
\* overwrites the slot with the in-memory collection
C18_SlotReadAtConstruction ==
  [][LET l1 == listOf(tasks)
         l2 == listOf(tasks')
     IN /\ last'.op = "external" => l2 = l1
        /\ last'.op = "list" => (l2 = l1 /\ ret'.items = l1)
        /\ last'.op = "add" => SubSeq(l2, 1, Len(l1)) = l1
        /\ last'.op = "toggle" =>
             /\ Len(l2) = Len(l1)
             /\ \A i \in 1..Len(l1) : SameIdentity(l2[i], l1[i])
        /\ last'.op = "remove" => SubsequenceOf(l2, l1)
        /\ last'.op = "construct" => tasks' = Hydrate(slot).tasks
        /\ (last.op = "external" /\ last'.op \in StoreOps)
             => slot' = Stringify(tasks')]_vars

\* ------------------------------------------------------------------ C19
\* the positions of the records a row with this data-id was rendered from
RenderedFrom(l, dataId) == {i \in 1..Len(l) : ToAttr(l[i].id) = dataId}

\* C19: on a page that shows the current collection (one hydrated from the
\* slot included), a toggle trigger on a row whose handler runs to its end
\* inverts the done value of the record the row was rendered from, and such
\* a delete trigger removes that record from the collection
C19_RowReachesRecord ==
  [][LET l1 == listOf(tasks)
         l2 == listOf(tasks')
     IN /\ (failures = 0 /\ failures' = 0 /\ event' = "toggle") =>
             /\ RenderedFrom(l1, last'.arg) # {}
             /\ \A i \in RenderedFrom(l1, last'.arg) : l2[i].done = Not(l1[i].done)
        /\ (failures = 0 /\ failures' = 0 /\ event' = "delete") =>
             /\ RenderedFrom(l1, last'.arg) # {}
             /\ RenderedFrom(l2, last'.arg) = {}]_vars

\* ------------------------------------------------------------------ C20
\* C20: the two definitions of createStore, run side by side from the same
\* slot content under the same calls, return equal values, throw in the
\* same calls, and leave equal slot contents and equal collections at
\* every step
C20_DefinitionsAgree ==
  /\ store2.ret = ret
  /\ store2.outcome = outcome
  /\ store2.slot = slot
  /\ listOf(store2.tasks) = listOf(tasks)

C20_Witness ==
  /\ last.op = "toggle"
  /\ last.hit
  /\ outcome = "ok"
  /\ Len(store2.tasks) = 2
  /\ store2.ret.items = listOf(store2.tasks)
  /\ store2.slot = Stringify(store2.tasks)

====
